---- MODULE Spec2Model ----
(***************************************************************************)
(* Boarding combat of Endless Sky (Boarding.cpp, BoardingCombat.cpp,       *)
(* Plunder.cpp): the Turn state machine, the Combat Session (Step) and the *)
(* plunder session, as a state machine over the crew of the two ships, the *)
(* turn history and the outcome of the last call.                          *)
(***************************************************************************)
EXTENDS Integers, Sequences, FiniteSets, TLC

VARIABLES
    cfg,        \* what construction fixes: player ship, language, attributes, goals
    crew,       \* Ship::Crew() of each ship
    automated,  \* Combatant::automatedDefenders / automatedInvaders
    destroyed,  \* whether Ship::Destroy() / Ship::SelfDestruct() was called on the ship
    remaining,  \* Plunder::Session::remaining of each combatant's session (item counts)
    taken,      \* Plunder::Session::taken of each combatant's session (units taken)
    pending,    \* BoardingCombat::pendingCasualtyConsequences
    history,    \* BoardingCombat::history
    call        \* the last call made on the combat and how it returned

vars == <<cfg, crew, automated, destroyed, remaining, taken, pending, history, call>>

----------------------------------------------------------------------------
(* Bounds of the model. *)

MaxCrew == 2
MaxAutomated == 1
MaxItems == 1
MaxCount == 1
MaxTurns == 2
MaxPlayerTurns == 1
MaxOddsCrew == 3
MaxCrewPower == 1
MaxTalks == 3
MaxRolls == 2

----------------------------------------------------------------------------
(* Boarding.h: the enumerations. *)

Sides == {"boarder", "target"}

Enemy(side) == IF side = "boarder" THEN "target" ELSE "boarder"

State ==
    {"Isolated", "Poised", "Withdrawing", "BoarderInvading", "TargetInvading",
     "BoarderVictory", "TargetVictory", "Ended"}

Negotiation ==
    {"NotAttempted", "BoarderRejected", "TargetRejected", "Active", "Successful", "Failed"}

Objective ==
    {"Null", "Pending", "Attack", "Defend", "Negotiate", "Plunder", "Reject",
     "Resolve", "SelfDestruct", "Capture", "Destroy", "Leave"}

\* A value of an enum variable that was never initialised: any enumerator, or
\* an integer that is no enumerator at all.
IndeterminateState == State \cup {"NoState"}

IndeterminateNegotiation == Negotiation \cup {"NoNegotiation"}

Terminal == {"Ended", "BoarderVictory", "TargetVictory"}

EndingObjectives == {"SelfDestruct", "Capture", "Destroy", "Leave"}

\* Offer::Term, as far as Turn(combat, agreement) tells the terms apart.
Offers == {"TargetSurrender"}

\* Action::Details: std::variant<bool, std::tuple<int, int>, Offer>.
BoolDetails == [kind : {"bool"}, value : BOOLEAN]

TupleDetails == [kind : {"tuple"}, index : -1 .. MaxItems - 1, quantity : -1 .. 0]

OfferDetails == [kind : {"offer"}, offer : Offers]

Details == BoolDetails \cup TupleDetails \cup OfferDetails

NoDetails == [kind |-> "bool", value |-> FALSE]

Activity(objective, details) == [objective |-> objective, details |-> details]

Activities == {Activity(o, d) : o \in Objective, d \in Details}

----------------------------------------------------------------------------
(* Boarding.cpp: the enum-keyed tables.  A table is a function whose DOMAIN *)
(* is the set of keys the std::map holds; map.at(k) throws for another k.  *)

casualtiesPreventedByStateMutIsolated ==
    [s \in State |-> s \in {"Withdrawing", "BoarderVictory", "TargetVictory", "Ended"}]

casualtiesPreventedByState ==
    [s \in State |-> s \in {"Isolated", "Withdrawing", "BoarderVictory", "TargetVictory", "Ended"}]

casualtiesPreventedByNegotiation ==
    [n \in Negotiation |-> n = "Active"]

casualtiesPreventedByObjective ==
    [o \in Objective \ {"Pending"} |->
        o \in {"Null", "Plunder", "Negotiate", "Reject", "Resolve", "Capture", "Leave"}]

isObjectiveDefensive ==
    [o \in Objective \ {"Null", "Pending"} |->
        o \in {"Defend", "SelfDestruct", "Negotiate", "Resolve", "Leave"}]

ActiveObjectivesMutAttack ==
    [o \in Objective \ {"Null", "Pending"} |->
        o \in {"Negotiate", "Reject", "Resolve", "Attack"}]

\* Action::ValidObjectives while a negotiation is Active.
ActiveObjectives ==
    [o \in Objective \ {"Null", "Pending"} |-> o \in {"Negotiate", "Reject", "Resolve"}]

ValidObjectivesMutAll(state, negotiation, isBoarder) ==
    [o \in Objective \ {"Null", "Pending"} |-> TRUE]

ValidObjectives(state, negotiation, isBoarder) ==
    IF negotiation = "Active" THEN ActiveObjectives
    ELSE
        LET canAttack == (state = "Isolated" /\ isBoarder)
                \/ state = "BoarderInvading" \/ state = "Poised" \/ state = "TargetInvading"
            canDefend == (state = "Isolated" /\ ~isBoarder)
                \/ state = "BoarderInvading" \/ state = "Poised" \/ state = "TargetInvading"
            canSelfDestruct == (state = "Isolated" /\ ~isBoarder)
                \/ (state = "BoarderInvading" /\ ~isBoarder)
                \/ state = "Poised"
                \/ (state = "TargetInvading" /\ isBoarder)
            canPlunder == (state = "Isolated" /\ isBoarder)
                \/ (state = "BoarderVictory" /\ isBoarder)
                \/ (state = "TargetVictory" /\ ~isBoarder)
            stateAllowsNegotiation ==
                state \in {"Isolated", "Poised", "Withdrawing", "BoarderInvading", "TargetInvading"}
            canNegotiate == stateAllowsNegotiation
                /\ (\/ negotiation = "NotAttempted"
                    \/ (negotiation = "BoarderRejected" /\ isBoarder)
                    \/ (negotiation = "TargetRejected" /\ ~isBoarder))
            canCapture == (state = "BoarderVictory" /\ isBoarder)
                \/ (state = "TargetVictory" /\ ~isBoarder)
            canLeave == (state = "Isolated" /\ isBoarder)
                \/ (state = "BoarderVictory" /\ isBoarder)
                \/ (state = "TargetVictory" /\ ~isBoarder)
            canDestroy == (state = "Isolated" /\ isBoarder)
                \/ (state = "BoarderVictory" /\ isBoarder)
                \/ (state = "TargetVictory" /\ ~isBoarder)
        IN  [o \in Objective \ {"Null", "Pending"} |->
                CASE o = "Attack" -> canAttack
                  [] o = "Defend" -> canDefend
                  [] o = "Plunder" -> canPlunder
                  [] o = "SelfDestruct" -> canSelfDestruct
                  [] o = "Negotiate" -> canNegotiate
                  [] o = "Reject" -> FALSE
                  [] o = "Resolve" -> FALSE
                  [] o = "Capture" -> canCapture
                  [] o = "Leave" -> canLeave
                  [] o = "Destroy" -> canDestroy]

IsValidDetailsMutPlaceholder(objective, details) ==
    CASE details.kind = "bool" -> ~details.value
      [] details.kind = "tuple" -> objective = "Plunder"
      [] details.kind = "offer" -> objective \in {"Negotiate", "Resolve"}

IsValidDetails(objective, details) ==
    CASE details.kind = "bool" ->
            IF objective \in {"Plunder", "Negotiate", "Resolve"} THEN FALSE ELSE ~details.value
      [] details.kind = "tuple" -> objective = "Plunder"
      [] details.kind = "offer" -> objective \in {"Negotiate", "Resolve"}

ActionIndexMutTargetFirst(state, isBoarder) == IF isBoarder THEN 1 ELSE 0

\* Boarding::ActionIndex: the place of a side's action in Turn::actions.
ActionIndex(state, isBoarder) ==
    IF state = "TargetInvading"
    THEN (IF isBoarder THEN 0 ELSE 1)
    ELSE (IF isBoarder THEN 1 ELSE 0)

\* Boarding::IsValidActivity: "ok", or the exception it ends with.  With
\* shouldThrow false an invalid Activity gives "invalid"; at() throws
\* std::out_of_range for an objective that is no key of the map either way.
IsValidActivity(activity, validObjectives, shouldThrow) ==
    IF activity.objective \notin DOMAIN validObjectives THEN "out_of_range"
    ELSE IF ~validObjectives[activity.objective]
        THEN (IF shouldThrow THEN "invalid_argument" ELSE "invalid")
    ELSE IF ~IsValidDetails(activity.objective, activity.details)
        THEN (IF shouldThrow THEN "invalid_argument" ELSE "invalid")
    ELSE "ok"

----------------------------------------------------------------------------
(* The ships, as the combat reads and changes them.  A world w is the part *)
(* of the state a Turn can change while it is being resolved.              *)

World == [crew |-> crew, automated |-> automated, destroyed |-> destroyed,
          remaining |-> remaining, taken |-> taken, pending |-> pending]

\* Ship::Defenders() and Ship::Invaders(): the ship's crew plus its automated
\* systems.  The ship never sees the Combatant's own automated counters.
Defenders(w, side) == w.crew[side] + cfg.automatedDefenders[side]

Invaders(w, side) == w.crew[side] + cfg.automatedInvaders[side]

\* Ship::AddCrew(count).
AddCrew(w, side, count) == [w EXCEPT !.crew[side] = @ + count]

\* Ship::Destroy() and Ship::SelfDestruct(): the hull is gone, the crew count stays.
Destroy(w, side) == [w EXCEPT !.destroyed[side] = TRUE]

----------------------------------------------------------------------------
(* BoardingCombat::Combatant *)

\* Gamerules::BoardingCasualtyPercentagePerAction, 0.25, in hundredths.
CasualtyPercentagePerAction == 25

Max(a, b) == IF a >= b THEN a ELSE b

ApplyCasualtyMutCrewFirst(w, side, isInvading) == [w EXCEPT !.crew[side] = @ - 1]

\* Combatant::ApplyCasualty: the world after the casualty; the value the code
\* returns is Defenders of that world.
ApplyCasualty(w, side, isInvading) ==
    IF isInvading /\ w.automated[side].invaders # 0
    THEN [w EXCEPT !.automated[side].invaders = @ - 1]
    ELSE IF ~isInvading /\ w.automated[side].defenders # 0
    THEN [w EXCEPT !.automated[side].defenders = @ - 1]
    ELSE AddCrew(w, side, -1)

\* Combatant::CasualtyRolls: whether one of its map.at() calls throws.  The
\* three tables are read left to right and || stops at the first true.
CasualtyRollsThrows(state, negotiation, objective) ==
    IF state \notin DOMAIN casualtiesPreventedByState THEN TRUE
    ELSE IF casualtiesPreventedByState[state] THEN FALSE
    ELSE IF negotiation \notin DOMAIN casualtiesPreventedByNegotiation THEN TRUE
    ELSE IF casualtiesPreventedByNegotiation[negotiation] THEN FALSE
    ELSE IF objective \notin DOMAIN casualtiesPreventedByObjective THEN TRUE
    ELSE IF casualtiesPreventedByObjective[objective] THEN FALSE
    ELSE objective \notin DOMAIN isObjectiveDefensive

CasualtyRolls(w, side, state, negotiation, objective) ==
    IF \/ casualtiesPreventedByState[state]
       \/ casualtiesPreventedByNegotiation[negotiation]
       \/ casualtiesPreventedByObjective[objective]
    THEN 0
    ELSE Max(1, (CasualtyPercentagePerAction
                    * (IF isObjectiveDefensive[objective]
                       THEN Defenders(w, side) ELSE Invaders(w, side))) \div 100)

\* Combatant::ActionPower and Combatant::CasualtyPower look the objective up in
\* isObjectiveDefensive: at() throws for Null and Pending.
PowerThrows(objective) == objective \notin DOMAIN isObjectiveDefensive

MaybeChangeStateMutEscalate(side, state, actual, enemyIntent) ==
    IF actual.objective = "Attack"
    THEN IF state = "Isolated" /\ side = "boarder" THEN "Poised"
         ELSE IF state = "Poised" \/ state = "Withdrawing"
             THEN (IF side = "boarder" THEN "BoarderInvading" ELSE "TargetInvading")
         ELSE state
    ELSE IF actual.objective \in {"SelfDestruct", "Capture", "Destroy", "Leave"}
    THEN "Ended"
    ELSE state

MaybeChangeState(side, state, actual, enemyIntent) ==
    LET isBoarder == side = "boarder"
        enemyAttacking == enemyIntent.objective = "Attack"
        isInvading == IF isBoarder THEN state = "BoarderInvading" ELSE state = "TargetInvading"
        enemyInvading == IF isBoarder THEN state = "TargetInvading" ELSE state = "BoarderInvading"
    IN  IF actual.objective = "Attack"
        THEN IF isInvading THEN state
             ELSE IF enemyInvading THEN (IF enemyAttacking THEN state ELSE "Poised")
             ELSE IF state = "Isolated" /\ isBoarder THEN "Poised"
             ELSE IF state = "Poised" \/ state = "Withdrawing"
                 THEN (IF enemyAttacking THEN "Poised"
                       ELSE IF isBoarder THEN "BoarderInvading" ELSE "TargetInvading")
             ELSE state
        ELSE IF actual.objective \in {"SelfDestruct", "Capture", "Destroy", "Leave"}
        THEN "Ended"
        ELSE state

MaybeChangeNegotiation(side, negotiation, actual) ==
    IF actual.objective = "Negotiate" THEN "Active"
    ELSE IF actual.objective = "Reject"
        THEN (IF side = "boarder" THEN "BoarderRejected" ELSE "TargetRejected")
    ELSE negotiation

\* Action::Result of an Action that has not been applied yet: the constructors
\* of Action leave it uninitialised.
NoResult == [state |-> "?", negotiation |-> "?", casualties |-> 0, enemyCasualties |-> 0]

NewAction(intent, actual, effect) ==
    [intent |-> intent, actual |-> actual, effect |-> effect, result |-> NoResult]

\* Action(intent): an action that has not been attempted; effect({}) is zeroed.
PendingAction(intent) ==
    NewAction(intent, Activity("Pending", NoDetails),
        [state |-> "Isolated", negotiation |-> "NotAttempted",
         casualtyObjective |-> "Null", casualtyRolls |-> 0])

\* Combatant::AttemptAction.  wonPowerRoll and selfDestructRoll are the two
\* draws of Random::Real() as they fall.  The value is [error, action].
AttemptActionMutDefend(w, side, state, negotiation, intent, enemyIntent, wonPowerRoll, selfDestructRoll) ==
    LET actual == IF intent.objective = "Defend" THEN intent ELSE Activity("Null", NoDetails)
    IN  [error |-> "none",
         action |-> [intent |-> intent, actual |-> actual,
                     effect |-> [state |-> state, negotiation |-> negotiation,
                                 casualtyObjective |-> intent.objective, casualtyRolls |-> 0],
                     result |-> [state |-> "?", negotiation |-> "?", casualties |-> 0,
                                 enemyCasualties |-> 0]]]

AttemptAction(w, side, state, negotiation, intent, enemyIntent, wonPowerRoll, selfDestructRoll) ==
    LET isBoarder == side = "boarder"
        valid == IsValidActivity(intent, ValidObjectives(state, negotiation, isBoarder), FALSE)
        canPerformIntent ==
            CASE intent.objective = "Defend" -> enemyIntent.objective = "Attack"
              [] intent.objective = "Negotiate" -> cfg.languageShared
              [] intent.objective = "Resolve" -> enemyIntent.objective # "Reject"
              [] intent.objective = "SelfDestruct" ->
                    wonPowerRoll /\ selfDestructRoll /\ cfg.selfDestruct[side]
              [] OTHER -> TRUE
        actual == IF canPerformIntent THEN intent ELSE Activity("Null", NoDetails)
    IN  IF valid = "out_of_range"
        THEN [error |-> "out_of_range", action |-> PendingAction(intent)]
        ELSE IF valid # "ok"
        THEN [error |-> "none",
              action |-> NewAction(intent, Activity("Null", NoDetails),
                  [state |-> state, negotiation |-> negotiation,
                   casualtyObjective |-> intent.objective, casualtyRolls |-> 0])]
        ELSE IF PowerThrows(intent.objective)
                \/ CasualtyRollsThrows(state, negotiation, actual.objective)
        THEN [error |-> "out_of_range", action |-> PendingAction(intent)]
        ELSE [error |-> "none",
              action |-> NewAction(intent, actual,
                  [state |-> MaybeChangeState(side, state, actual, enemyIntent),
                   negotiation |-> MaybeChangeNegotiation(side, negotiation, actual),
                   casualtyObjective |-> actual.objective,
                   casualtyRolls |-> CasualtyRolls(w, side, state, negotiation, actual.objective)])]

----------------------------------------------------------------------------
(* Plunder::Session *)

\* Session::Take(index, pruneList, quantity) on the session of `side`, the
\* attacker taking takenCount units (what its cargo hold accepts).  The value
\* is [error, w].
Take(w, side, index, pruneList, quantity, takenCount) ==
    LET list == w.remaining[side]
    IN  IF index < 0 \/ index >= Len(list)
        THEN [error |-> "out_of_range", w |-> w]
        ELSE
            LET item == list[index + 1]
                available == item.count
                pruned == [i \in 1 .. Len(list) - 1 |->
                              IF i < index + 1 THEN list[i] ELSE list[i + 1]]
                \* Plunder::UpdateCount(-takenCount): count -= -takenCount.
                updated == [list EXCEPT ![index + 1].count = @ - (0 - takenCount)]
                old == w.taken[side]
                \* taken: a new entry with takenCount, or UpdateCount(takenCount).
                newTaken == IF item.name \in DOMAIN old
                            THEN [old EXCEPT ![item.name] = @ - takenCount]
                            ELSE [n \in DOMAIN old \cup {item.name} |->
                                     IF n = item.name THEN takenCount ELSE old[n]]
            IN  [error |-> "none",
                 w |-> [w EXCEPT
                     !.remaining[side] =
                         IF pruneList /\ takenCount = available THEN pruned ELSE updated,
                     !.taken[side] = newTaken]]

\* Session::Raid(): the non-selective raid, which takes every item.
Raid(w, side) == [error |-> "none", w |-> [w EXCEPT !.remaining[side] = <<>>]]

\* What the attacker's hold can accept of the item at index: 0 .. available.
TakenCounts(w, side, index) ==
    IF index < 0 \/ index >= Len(w.remaining[side]) THEN {0}
    ELSE 0 .. w.remaining[side][index + 1].count

----------------------------------------------------------------------------
(* BoardingCombat: casualties and the Apply functions.  Each gives          *)
(* [error, result, w].                                                      *)

Report(state, boarderCasualties, targetCasualties) ==
    [state |-> state, boarderCasualties |-> boarderCasualties,
     targetCasualties |-> targetCasualties]

RECURSIVE RollLoopMutNoStop(_, _, _, _, _)
RollLoopMutNoStop(w, report, i, casualtyRolls, draws) ==
    IF i > casualtyRolls THEN [report |-> report, w |-> w]
    ELSE IF draws[i]
    THEN RollLoopMutNoStop([w EXCEPT !.crew["boarder"] = @ - 1],
             [report EXCEPT !.boarderCasualties = @ + 1], i + 1, casualtyRolls, draws)
    ELSE RollLoopMutNoStop([w EXCEPT !.crew["target"] = @ - 1],
             [report EXCEPT !.targetCasualties = @ + 1], i + 1, casualtyRolls, draws)

RECURSIVE RollLoop(_, _, _, _, _)
\* The for loop of RollForCasualties from roll i on; draws[i] is isBoarderCasualty.
RollLoop(w, report, i, casualtyRolls, draws) ==
    IF i > casualtyRolls THEN [report |-> report, w |-> w]
    ELSE IF draws[i]
    THEN LET w2 == ApplyCasualty(w, "boarder", report.state = "BoarderInvading")
             r2 == [report EXCEPT !.boarderCasualties = @ + 1]
         IN  IF Defenders(w2, "boarder") = 0
             THEN [report |-> [r2 EXCEPT !.state = "TargetVictory"], w |-> w2]
             ELSE RollLoop(w2, r2, i + 1, casualtyRolls, draws)
    ELSE LET w2 == ApplyCasualty(w, "target", report.state = "TargetInvading")
             r2 == [report EXCEPT !.targetCasualties = @ + 1]
         IN  IF Defenders(w2, "target") = 0
             THEN [report |-> [r2 EXCEPT !.state = "BoarderVictory"], w |-> w2]
             ELSE RollLoop(w2, r2, i + 1, casualtyRolls, draws)

\* The number of rolls RollForCasualties makes.
RollCount(isBoarder, boarderAction, targetAction) ==
    IF isBoarder THEN boarderAction.effect.casualtyRolls
    ELSE targetAction.effect.casualtyRolls

RollForCasualties(w, state, isBoarder, boarderAction, targetAction, draws) ==
    LET casualtyRolls == RollCount(isBoarder, boarderAction, targetAction)
    IN  IF casualtyRolls < 1
        THEN [error |-> "none", report |-> Report(state, 0, 0), w |-> w]
        ELSE IF PowerThrows(boarderAction.effect.casualtyObjective)
                \/ PowerThrows(targetAction.effect.casualtyObjective)
        THEN [error |-> "out_of_range", report |-> Report(state, 0, 0), w |-> w]
        ELSE LET done == RollLoop(w, Report(state, 0, 0), 1, casualtyRolls, draws)
             IN  [error |-> "none", report |-> done.report,
                  w |-> [done.w EXCEPT !.pending = TRUE]]

Result(state, negotiation, casualties, enemyCasualties) ==
    [state |-> state, negotiation |-> negotiation,
     casualties |-> casualties, enemyCasualties |-> enemyCasualties]

ApplyNull(w, state, negotiation) ==
    [error |-> "none", result |-> Result(state, negotiation, 0, 0), w |-> w]

\* ApplyAttack and ApplyDefend: both hand (action, enemyAction) to
\* RollForCasualties as (boarderAction, targetAction).
ApplyAttack(w, state, negotiation, isBoarder, action, enemyAction, draws) ==
    LET rolled == RollForCasualties(w, state, isBoarder, action, enemyAction, draws)
        report == rolled.report
    IN  [error |-> rolled.error,
         result |-> Result(report.state, negotiation,
             IF isBoarder THEN report.boarderCasualties ELSE report.targetCasualties,
             IF isBoarder THEN report.targetCasualties ELSE report.boarderCasualties),
         w |-> rolled.w]

ApplyPlunder(w, state, negotiation, isBoarder, action, takenCount) ==
    LET actor == IF isBoarder THEN "boarder" ELSE "target"
        enemy == Enemy(actor)
        d == action.actual.details
        \* Take(index, quantity): quantity lands in pruneList, the quantity is -1.
        took == IF d.kind = "tuple"
                THEN Take(w, actor, d.index, d.quantity # 0, -1, takenCount)
                ELSE Raid(w, actor)
    IN  IF took.error # "none"
        THEN [error |-> took.error, result |-> Result(state, negotiation, 0, 0), w |-> w]
        ELSE IF took.w.remaining[enemy] = <<>>
        THEN [error |-> "none",
              result |-> Result("Ended", negotiation, 0, took.w.crew[enemy]),
              w |-> Destroy(took.w, enemy)]
        ELSE [error |-> "none", result |-> Result(state, negotiation, 0, 0), w |-> took.w]

ApplySelfDestruct(w, state, negotiation, isBoarder, action, enemyAction, draws) ==
    LET actor == IF isBoarder THEN "boarder" ELSE "target"
        rolled == RollForCasualties(w, state, isBoarder, action, enemyAction, draws)
        report == rolled.report
        casualties == rolled.w.crew[actor]
            + (IF isBoarder THEN report.boarderCasualties ELSE report.targetCasualties)
        w2 == IF casualties > 0 THEN [rolled.w EXCEPT !.pending = TRUE] ELSE rolled.w
    IN  IF rolled.error # "none"
        THEN [error |-> rolled.error, result |-> Result(state, negotiation, 0, 0), w |-> w]
        ELSE [error |-> "none",
              result |-> Result("Ended", negotiation, casualties,
                  IF isBoarder THEN report.targetCasualties ELSE report.boarderCasualties),
              w |-> Destroy(w2, actor)]

\* ApplyCasualtyConsequences clears the flag; Ship::WasCaptured moves
\* `transferred` crew members from the captor to the captured ship.
ApplyCapture(w, state, negotiation, isBoarder, transferred) ==
    LET actor == IF isBoarder THEN "boarder" ELSE "target"
        enemy == Enemy(actor)
    IN  [error |-> "none", result |-> Result("Ended", negotiation, 0, 0),
         w |-> [w EXCEPT !.pending = FALSE,
                         !.crew[actor] = @ - transferred,
                         !.crew[enemy] = @ + transferred]]

ApplyDestroy(w, state, negotiation, isBoarder) ==
    LET actor == IF isBoarder THEN "boarder" ELSE "target"
        enemy == Enemy(actor)
        enemyCasualties == w.crew[actor]
        w2 == IF enemyCasualties > 0 THEN [w EXCEPT !.pending = TRUE] ELSE w
    IN  [error |-> "none", result |-> Result("Ended", negotiation, 0, enemyCasualties),
         w |-> Destroy(w2, enemy)]

ApplyLeave(w, state, negotiation) ==
    [error |-> "none", result |-> Result("Ended", negotiation, 0, 0), w |-> w]

\* The random draws and the collaborators' answers one ApplyAction may use.
Draws(w, isBoarder, action, enemyAction) ==
    LET actor == IF isBoarder THEN "boarder" ELSE "target"
        o == action.actual.objective
        n == RollCount(isBoarder, action, enemyAction)
    IN  [rolls : IF o \in {"Attack", "Defend", "SelfDestruct"}
                 THEN [1 .. Max(n, 0) -> BOOLEAN] ELSE {<<>>},
         count : IF o = "Plunder" /\ action.actual.details.kind = "tuple"
                 THEN TakenCounts(w, actor, action.actual.details.index)
                 ELSE IF o = "Capture" THEN 0 .. Max(w.crew[actor] - 1, 0)
                 ELSE {0}]

\* BoardingCombat::ApplyAction: the dispatch on the actual objective.
ApplyAction(w, state, negotiation, isBoarder, action, enemyAction, draw) ==
    LET o == action.actual.objective
    IN  CASE o = "Null" -> ApplyNull(w, state, negotiation)
          [] o \in {"Attack", "Defend"} ->
                ApplyAttack(w, state, negotiation, isBoarder, action, enemyAction, draw.rolls)
          [] o \in {"Negotiate", "Reject", "Resolve"} -> ApplyNull(w, state, negotiation)
          [] o = "Plunder" -> ApplyPlunder(w, state, negotiation, isBoarder, action, draw.count)
          [] o = "SelfDestruct" ->
                ApplySelfDestruct(w, state, negotiation, isBoarder, action, enemyAction, draw.rolls)
          [] o = "Capture" -> ApplyCapture(w, state, negotiation, isBoarder, draw.count)
          [] o = "Destroy" -> ApplyDestroy(w, state, negotiation, isBoarder)
          [] o = "Leave" -> ApplyLeave(w, state, negotiation)
          [] OTHER -> [error |-> "invalid_argument",
                       result |-> Result(state, negotiation, 0, 0), w |-> w]

----------------------------------------------------------------------------
(* BoardingCombat::Turn *)

\* Turn(boarder, target): the synthetic first turn.
FirstTurn ==
    [previous |-> 0, state |-> "Isolated", negotiation |-> "NotAttempted",
     boarderIntent |-> Activity("Null", NoDetails),
     targetIntent |-> Activity("Null", NoDetails),
     boarderActionIndex |-> ActionIndex("Isolated", TRUE),
     actions |-> <<PendingAction(Activity("Null", NoDetails)),
                   PendingAction(Activity("Null", NoDetails))>>,
     casualties |-> Report("Isolated", 0, 0)]

Failed(error, w) == [error |-> error, w |-> w, turn |-> FirstTurn]

AttemptOutcomesMutActual(w, side, state, negotiation, intent, enemyIntent) ==
    {[attempt EXCEPT !.action.effect.casualtyObjective = attempt.action.actual.objective] :
        attempt \in {AttemptAction(w, side, state, negotiation, intent, enemyIntent, r[1], r[2]) :
                        r \in BOOLEAN \X BOOLEAN}}

AttemptOutcomes(w, side, state, negotiation, intent, enemyIntent) ==
    {AttemptAction(w, side, state, negotiation, intent, enemyIntent, r[1], r[2]) :
        r \in BOOLEAN \X BOOLEAN}

ApplyOutcomes(w, state, negotiation, isBoarder, action, enemyAction) ==
    {ApplyAction(w, state, negotiation, isBoarder, action, enemyAction, d) :
        d \in Draws(w, isBoarder, action, enemyAction)}

\* What the loop that applies the actions reads from actions[1].result after
\* it has applied actions[0]: the Result of actions[1] is not computed yet.
ReadSecondResult(firstResult) ==
    [state : IndeterminateState, negotiation : IndeterminateNegotiation]

\* Turn(combat, boarderIntent, targetIntent), from the world w with history h:
\* every way the constructor can end, as [error, w, turn].
TurnOutcomes(w, h, boarderIntent, targetIntent) ==
    LET previous == h[Len(h)]
        boarderActionIndex == ActionIndex(previous.state, TRUE)
        first == IF boarderActionIndex = 0 THEN "boarder" ELSE "target"
        second == Enemy(first)
        intent == [side \in Sides |-> IF side = "boarder" THEN boarderIntent ELSE targetIntent]
        vb == IsValidActivity(boarderIntent,
                  ValidObjectives(previous.state, previous.negotiation, TRUE), TRUE)
        vt == IsValidActivity(targetIntent,
                  ValidObjectives(previous.state, previous.negotiation, FALSE), TRUE)
    IN  IF vb # "ok" THEN {Failed(vb, w)}
        ELSE IF vt # "ok" THEN {Failed(vt, w)}
        ELSE UNION {
            IF a0.error # "none" THEN {Failed(a0.error, w)}
            ELSE UNION {
                IF a1.error # "none" THEN {Failed(a1.error, w)}
                ELSE UNION {
                    IF r0.error # "none" THEN {Failed(r0.error, r0.w)}
                    ELSE UNION {
                        {IF r1.error # "none" THEN Failed(r1.error, r1.w)
                         ELSE [error |-> "none", w |-> r1.w,
                               turn |-> [previous |-> Len(h),
                                   state |-> r1.result.state,
                                   negotiation |-> r1.result.negotiation,
                                   boarderIntent |-> boarderIntent,
                                   targetIntent |-> targetIntent,
                                   boarderActionIndex |-> boarderActionIndex,
                                   actions |-> <<[a0.action EXCEPT !.result = r0.result],
                                                 [a1.action EXCEPT !.result = r1.result]>>]] :
                            r1 \in ApplyOutcomes(r0.w, g.state, g.negotiation,
                                      second = "boarder", a1.action, a0.action)} :
                        g \in ReadSecondResult(r0.result)} :
                    r0 \in ApplyOutcomes(w, a1.action.effect.state,
                              a1.action.effect.negotiation,
                              first = "boarder", a0.action, a1.action)} :
                a1 \in AttemptOutcomes(w, second, a0.action.effect.state,
                          a0.action.effect.negotiation, intent[second], intent[first])} :
            a0 \in AttemptOutcomes(w, first, previous.state, previous.negotiation,
                      intent[first], intent[second])}

BoarderAction(turn) == turn.actions[turn.boarderActionIndex + 1]

TargetAction(turn) == turn.actions[(1 - turn.boarderActionIndex) + 1]

Latest == history[Len(history)]

\* The casualties of a side that the two Results of a Turn report: its own
\* Result's casualties and the enemy Result's enemyCasualties.
ReportedCasualties(turn, side) ==
    IF side = "boarder"
    THEN BoarderAction(turn).result.casualties + TargetAction(turn).result.enemyCasualties
    ELSE TargetAction(turn).result.casualties + BoarderAction(turn).result.enemyCasualties

----------------------------------------------------------------------------
(* BoardingCombat::Combatant: the automatic choice of an intent. *)

Goals == {"CAPTURE", "PLUNDER", "OTHER"}

\* SituationReport, as far as DetermineIntent reads it without arithmetic.
SituationReport(side, turn, w) ==
    [validObjectives |-> ValidObjectives(turn.state, turn.negotiation, side = "boarder"),
     enemyValidObjectives |-> ValidObjectives(turn.state, turn.negotiation, side # "boarder"),
     isEnemyInvading |-> IF side = "boarder" THEN turn.state = "TargetInvading"
                         ELSE turn.state = "BoarderInvading",
     plunderOptionsEmpty |-> w.remaining[side] = <<>>]

\* How the comparisons of probabilities, profits and powers fall, and what
\* Session::IsFinished() answers: the model leaves the arithmetic open.
Comparisons ==
    [capture : BOOLEAN, attack : BOOLEAN, selfDestruct : BOOLEAN,
     plunder : BOOLEAN, isPlunderFinished : BOOLEAN]

ConsiderAttacking(report, c) == report.validObjectives["Attack"] /\ c.attack

ConsiderCapturing(report, c) == report.validObjectives["Capture"] /\ c.capture

ConsiderDestroying(report) ==
    report.validObjectives["Destroy"] /\ report.plunderOptionsEmpty

ConsiderPlundering(report, c) == report.validObjectives["Plunder"] /\ c.plunder

\* selfDestructProbability is 0 without the attribute; c.selfDestruct stands
\* for the defense strategy and its comparisons.
ConsiderSelfDestructing(side, report, c) ==
    /\ cfg.selfDestruct[side]
    /\ c.selfDestruct
    /\ report.enemyValidObjectives["Plunder"] \/ report.isEnemyInvading

DetermineCaptureIntent(side, report, c) ==
    IF ConsiderCapturing(report, c) THEN Activity("Capture", NoDetails)
    ELSE IF ConsiderAttacking(report, c) THEN Activity("Attack", NoDetails)
    ELSE IF ConsiderSelfDestructing(side, report, c) THEN Activity("SelfDestruct", NoDetails)
    ELSE IF report.validObjectives["Leave"] THEN Activity("Leave", NoDetails)
    ELSE IF report.validObjectives["Defend"] THEN Activity("Defend", NoDetails)
    ELSE Activity("Null", NoDetails)

RaidDetails == [kind |-> "tuple", index |-> -1, quantity |-> -1]

DetermineDefaultIntent(side, report, c) ==
    IF ConsiderCapturing(report, c) THEN Activity("Capture", NoDetails)
    ELSE IF ConsiderAttacking(report, c) THEN Activity("Attack", NoDetails)
    ELSE IF ConsiderSelfDestructing(side, report, c) THEN Activity("SelfDestruct", NoDetails)
    ELSE IF ConsiderPlundering(report, c) THEN Activity("Plunder", RaidDetails)
    ELSE IF ConsiderDestroying(report) THEN Activity("Destroy", NoDetails)
    ELSE IF report.validObjectives["Leave"] THEN Activity("Leave", NoDetails)
    ELSE IF report.validObjectives["Defend"] THEN Activity("Defend", NoDetails)
    ELSE Activity("Null", NoDetails)

DeterminePlunderIntent(side, report, c) ==
    IF ConsiderDestroying(report) THEN Activity("Destroy", NoDetails)
    ELSE IF c.isPlunderFinished /\ report.validObjectives["Leave"]
        THEN Activity("Leave", NoDetails)
    ELSE IF ConsiderAttacking(report, c) THEN Activity("Attack", NoDetails)
    ELSE IF ConsiderSelfDestructing(side, report, c) THEN Activity("SelfDestruct", NoDetails)
    ELSE IF report.validObjectives["Plunder"] THEN Activity("Plunder", RaidDetails)
    ELSE IF report.validObjectives["Leave"] THEN Activity("Leave", NoDetails)
    ELSE IF report.validObjectives["Defend"] THEN Activity("Defend", NoDetails)
    ELSE Activity("Null", NoDetails)

\* Combatant::DetermineIntent: the intents the combatant can come to.
DetermineIntent(side) ==
    LET report == SituationReport(side, Latest, World)
    IN  {CASE cfg.goal[side] = "CAPTURE" -> DetermineCaptureIntent(side, report, c)
           [] cfg.goal[side] = "PLUNDER" -> DeterminePlunderIntent(side, report, c)
           [] OTHER -> DetermineDefaultIntent(side, report, c) : c \in Comparisons}

----------------------------------------------------------------------------
(* BoardingCombat: construction and the calls. *)

\* Combatant::isPlayerControlled, as the constructor computes it: the boarder
\* from its own ship, the target from its enemy's ship.
IsPlayerControlled(side) == cfg.yours = "boarder"

GetPlayerCombatant ==
    IF IsPlayerControlled("boarder") THEN "boarder"
    ELSE IF IsPlayerControlled("target") THEN "target"
    ELSE "nullptr"

\* Session::remaining at construction: the enemy's plunderable items.
Items == [name : {"fuel"}, count : 1 .. MaxCount]

ItemLists == UNION {[1 .. n -> Items] : n \in 0 .. MaxItems}

\* A combat the player takes part in is driven through the boarding panel,
\* which calls Step(playerIntent); any other combat is resolved automatically.
PanelConfigs ==
    [yours : {"boarder", "target"},
     languageShared : {TRUE},
     selfDestruct : {[side \in Sides |-> side = "target"]},
     automatedDefenders : [Sides -> {0}],
     automatedInvaders : [Sides -> {0}],
     goal : [Sides -> {"OTHER"}]]

AutomaticConfigs ==
    [yours : {"none"},
     languageShared : {TRUE},
     selfDestruct : {[side \in Sides |-> side = "target"]},
     automatedDefenders : {[side \in Sides |-> IF side = "target" THEN n ELSE 0] :
                              n \in 0 .. MaxAutomated},
     automatedInvaders : [Sides -> {0}],
     goal : [Sides -> {"OTHER"}]]

Configs == PanelConfigs \cup AutomaticConfigs

\* Ship::Crew() of the two ships at construction.
Crews == {[side \in Sides |-> IF side = "boarder" THEN MaxCrew ELSE 1]}

Plunderables(config) ==
    IF config.yours = "none"
    THEN {[side \in Sides |-> <<[name |-> "fuel", count |-> MaxCount]>>]}
    ELSE [Sides -> ItemLists]

\* A call and how it returned.  offered and detailsOk say of the intent a
\* player handed to Step whether its objective is offered to the side of the
\* player's ship and whether its details fit its objective, and of the two
\* intents handed to Turn whether both are and do.
Returned(op, error, offered, detailsOk, turn) ==
    [op |-> op, error |-> error, offered |-> offered, detailsOk |-> detailsOk,
     turn |-> turn]

\* Whether the objective is offered to `side` in the latest state and negotiation.
Offered(objective, side, turn) ==
    LET valid == ValidObjectives(turn.state, turn.negotiation, side = "boarder")
    IN  objective \in DOMAIN valid /\ valid[objective]

\* BoardingCombat(player, boarderShip, targetShip).
Init ==
    /\ cfg \in Configs
    /\ crew \in Crews
    /\ automated = [side \in Sides |->
           [defenders |-> cfg.automatedDefenders[side],
            invaders |-> cfg.automatedInvaders[side]]]
    /\ destroyed = [side \in Sides |-> FALSE]
    /\ remaining \in Plunderables(cfg)
    /\ taken = [side \in Sides |-> <<>>]
    /\ pending = FALSE
    /\ history = <<FirstTurn>>
    /\ call = Returned("none", "none", TRUE, TRUE, FirstTurn)

\* The ships after a Turn constructor that ended as `outcome`.
Ships(outcome) ==
    /\ crew' = outcome.w.crew
    /\ automated' = outcome.w.automated
    /\ destroyed' = outcome.w.destroyed
    /\ remaining' = outcome.w.remaining
    /\ taken' = outcome.w.taken
    /\ pending' = outcome.w.pending

PushBackMutOverwrite(outcome) ==
    history' = IF outcome.error = "none"
               THEN Append(SubSeq(history, 1, Len(history) - 1), outcome.turn)
               ELSE history

\* make_shared<Turn>(...) and history->push_back(next): an exception of the
\* constructor leaves the history alone.
PushBack(outcome) ==
    history' = IF outcome.error = "none" THEN Append(history, outcome.turn) ELSE history

Idle == call.error \notin {"crash", "running"}

\* BoardingCombat::Step().
Step ==
    /\ Idle
    /\ cfg.yours = "none"
    /\ Len(history) <= MaxTurns
    /\ \E boarderIntent \in DetermineIntent("boarder"),
          targetIntent \in DetermineIntent("target") :
          \E outcome \in TurnOutcomes(World, history, boarderIntent, targetIntent) :
              /\ Ships(outcome)
              /\ PushBack(outcome)
              /\ call' = Returned("Step", outcome.error, TRUE, TRUE, outcome.turn)
    /\ UNCHANGED cfg

\* BoardingCombat::Step(playerIntent).  A combat of the player is followed for
\* MaxPlayerTurns Turns, and after them from the states that have ended it.
StepPlayer ==
    /\ Idle
    /\ Len(history) <= MaxTurns
    /\ cfg.yours # "none"
    /\ \E playerIntent \in Activities :
        LET player == GetPlayerCombatant
            offered == Offered(playerIntent.objective, cfg.yours, Latest)
            detailsOk == IsValidDetails(playerIntent.objective, playerIntent.details)
            refused(error) ==
                /\ call' = Returned("StepPlayer", error, offered, detailsOk, FirstTurn)
                /\ UNCHANGED <<crew, automated, destroyed, remaining, taken, pending, history>>
        IN  IF player = "nullptr" THEN refused("crash")
            ELSE LET valid == ValidObjectives(Latest.state, Latest.negotiation,
                                  player = "boarder")
                 IN  IF playerIntent.objective \notin DOMAIN valid
                         THEN refused("out_of_range")
                     ELSE IF ~valid[playerIntent.objective]
                         THEN refused("invalid_argument")
                     ELSE IF ~IsValidDetails(playerIntent.objective, playerIntent.details)
                         THEN refused("invalid_argument")
                     ELSE (Len(history) <= MaxPlayerTurns \/ Latest.state \in Terminal)
                          /\ \E aiIntent \in DetermineIntent(
                                 IF IsPlayerControlled("boarder") THEN "target" ELSE "boarder") :
                          \E outcome \in
                                 IF IsPlayerControlled("boarder")
                                 THEN TurnOutcomes(World, history, playerIntent, aiIntent)
                                 ELSE TurnOutcomes(World, history, aiIntent, playerIntent) :
                              /\ Ships(outcome)
                              /\ PushBack(outcome)
                              /\ call' = Returned("StepPlayer", outcome.error, offered,
                                             detailsOk, outcome.turn)
    /\ UNCHANGED cfg

\* BoardingCombat::ResolveAutomatically: one pass of its loop.  The call is
\* "running" between two passes; it returns when a Step gave Ended and ends
\* with the exception of a Step that threw.
ResolveAutomatically ==
    /\ \/ call.op = "none"
       \/ call.op = "ResolveAutomatically" /\ call.error = "running"
    /\ cfg.yours = "none"
    /\ Len(history) <= MaxTurns
    /\ \E boarderIntent \in DetermineIntent("boarder"),
          targetIntent \in DetermineIntent("target") :
          \E outcome \in TurnOutcomes(World, history, boarderIntent, targetIntent) :
              /\ Ships(outcome)
              /\ PushBack(outcome)
              /\ call' = Returned("ResolveAutomatically",
                             IF outcome.error # "none" THEN outcome.error
                             ELSE IF outcome.turn.state = "Ended" THEN "none"
                             ELSE "running",
                             TRUE, TRUE, outcome.turn)
    /\ UNCHANGED cfg

Next == Step \/ StepPlayer \/ ResolveAutomatically

Spec == Init /\ [][Next]_vars

----------------------------------------------------------------------------
(* A Turn constructed with both intents supplied, on a combat that has      *)
(* resolved its first Turn: the boarder attacked and the target defended.   *)

TurnConfigs ==
    [yours : {"none"},
     languageShared : BOOLEAN,
     selfDestruct : [Sides -> {TRUE}],
     automatedDefenders : [Sides -> {0}],
     automatedInvaders : [Sides -> {0}],
     goal : [Sides -> {"OTHER"}]]

InitTurn ==
    /\ cfg \in TurnConfigs
    /\ \E c \in Crews, r \in Plunderables(cfg) :
       \E first \in TurnOutcomes(
              [crew |-> c,
               automated |-> [side \in Sides |->
                   [defenders |-> cfg.automatedDefenders[side],
                    invaders |-> cfg.automatedInvaders[side]]],
               destroyed |-> [side \in Sides |-> FALSE],
               remaining |-> r,
               taken |-> [side \in Sides |-> <<>>],
               pending |-> FALSE],
              <<FirstTurn>>, Activity("Attack", NoDetails), Activity("Defend", NoDetails)) :
           /\ first.error = "none"
           /\ crew = first.w.crew
           /\ automated = first.w.automated
           /\ destroyed = first.w.destroyed
           /\ remaining = first.w.remaining
           /\ taken = first.w.taken
           /\ pending = first.w.pending
           /\ history = <<FirstTurn, first.turn>>
           /\ call = Returned("Step", "none", TRUE, TRUE, first.turn)

\* Turn(combat, boarderIntent, targetIntent): the constructor alone, which
\* leaves the history to its caller.
NewTurn ==
    /\ call.op # "Turn"
    /\ \E boarderIntent \in Activities, targetIntent \in Activities :
          \E outcome \in TurnOutcomes(World, history, boarderIntent, targetIntent) :
              /\ Ships(outcome)
              /\ call' = Returned("Turn", outcome.error,
                             /\ Offered(boarderIntent.objective, "boarder", Latest)
                             /\ Offered(targetIntent.objective, "target", Latest),
                             /\ IsValidDetails(boarderIntent.objective, boarderIntent.details)
                             /\ IsValidDetails(targetIntent.objective, targetIntent.details),
                             outcome.turn)
    /\ UNCHANGED <<cfg, history>>

SpecTurn == InitTurn /\ [][NewTurn]_vars

----------------------------------------------------------------------------
(* The claims. *)

Exceptions == {"invalid_argument", "out_of_range"}

\* A step of the combat that appended a Turn.
Appended == Len(history') = Len(history) + 1

Added == history'[Len(history')]

Ending(turn) ==
    {side \in Sides :
        (IF side = "boarder" THEN BoarderAction(turn) ELSE TargetAction(turn)).actual.objective
            \in EndingObjectives}

C2_NegotiationExclusivity ==
    /\ \A state \in IndeterminateState, isBoarder \in BOOLEAN :
          LET valid == ValidObjectives(state, "Active", isBoarder)
          IN  /\ {"Negotiate", "Reject", "Resolve"} \subseteq DOMAIN valid
              /\ \A o \in DOMAIN valid : valid[o] <=> o \in {"Negotiate", "Reject", "Resolve"}
    /\ (call.op = "Turn" /\ call.error = "none" /\ Latest.negotiation = "Active") =>
          \A i \in 1 .. 2 :
              call.turn.actions[i].actual.objective \notin
                  {"Attack", "Defend", "Plunder", "SelfDestruct", "Capture", "Leave", "Destroy"}

\* A Turn resolved from an Active negotiation in which the boarder negotiated.
C2_Witness ==
    /\ call.op = "Turn"
    /\ call.error = "none"
    /\ Latest.negotiation = "Active"
    /\ BoarderAction(call.turn).actual.objective = "Negotiate"
    /\ TargetAction(call.turn).intent.objective = "Resolve"

\* C3: over every resolved Turn the crew a side lost equals the casualties the
\* Turn reports for that side.
C3_CasualtyConservation ==
    [][Appended =>
          \A side \in Sides : crew[side] - crew'[side] = ReportedCasualties(Added, side)]_vars

\* C4: Step(playerIntent) with an objective that is not offered to the player's
\* side, or with details that do not fit the objective, raises a validation
\* error, appends no Turn and leaves the state, the negotiation and the crews.
C4_PlayerStepRejected ==
    [][(call'.op = "StepPlayer" /\ (~call'.offered \/ ~call'.detailsOk)) =>
          /\ call'.error \in Exceptions
          /\ UNCHANGED <<history, crew>>]_vars

\* C5: a Turn in which either side's actual objective is SelfDestruct, Capture,
\* Destroy or Leave records the state Ended.
C5_EndingObjectiveEnds ==
    \A i \in 2 .. Len(history) : Ending(history[i]) # {} => history[i].state = "Ended"

\* C6: ResolveAutomatically never ends with an exception, and when it returns
\* the last Turn of the history has the state Ended.
C6_ResolveAutomaticallyReturns ==
    call.op = "ResolveAutomatically" =>
        /\ call.error \notin Exceptions
        /\ call.error = "none" => Latest.state = "Ended"

\* C7: in a Turn at most one side performs a combat-ending objective, and over
\* the whole combat at most one combat-ending objective is performed.
C7_AtMostOneEnding ==
    /\ \A i \in 2 .. Len(history) : Cardinality(Ending(history[i])) <= 1
    /\ Cardinality({i \in 2 .. Len(history) : Ending(history[i]) # {}}) <= 1

IsHistory(h) ==
    /\ Len(h) >= 1
    /\ h[1].previous = 0
    /\ h[1].state = "Isolated"
    /\ h[1].negotiation = "NotAttempted"
    /\ h[1].boarderIntent.objective = "Null"
    /\ h[1].targetIntent.objective = "Null"
    /\ h[1].casualties = Report("Isolated", 0, 0)
    /\ \A i \in 2 .. Len(h) : h[i].previous = i - 1

\* C8: the history is never empty and only grows: it starts with the synthetic
\* Turn, a successful Step appends exactly one Turn whose previous is the
\* former last Turn, a failing Step appends none, and no Turn in it changes.
C8_AppendOnlyHistory ==
    [][/\ IsHistory(history)
       /\ IsHistory(history')
       /\ SubSeq(history', 1, Len(history)) = history
       /\ call'.error \in {"none", "running"} => Appended /\ Added.previous = Len(history)
       /\ call'.error \notin {"none", "running"} => history' = history]_vars

\* A history that two successful Steps have extended.
C8_Witness ==
    /\ Len(history) = 3
    /\ call.error = "none"
    /\ history[3].previous = 2

\* C9: a Plunder that takes the last item of the acting side's list ends the
\* combat, destroys the enemy ship and counts the enemy's whole crew; a Plunder
\* that leaves items in the list changes no casualty count and destroys nothing.
C9_PlunderExhaustion ==
    [][(Appended /\ BoarderAction(Added).actual.objective = "Plunder") =>
          LET result == BoarderAction(Added).result
          IN  /\ (remaining["boarder"] # <<>> /\ remaining'["boarder"] = <<>>) =>
                    /\ result.state = "Ended"
                    /\ destroyed'["target"]
                    /\ result.enemyCasualties = crew["target"]
              /\ remaining'["boarder"] # <<>> =>
                    /\ result.enemyCasualties = 0
                    /\ result.casualties = 0
                    /\ ~destroyed'["target"]]_vars

\* The boarder attacked, by its actual objective, in a Turn that started Isolated.
IsolatedAttack ==
    /\ Appended
    /\ Latest.state = "Isolated"
    /\ BoarderAction(Added).actual.objective = "Attack"

\* C10 as the specification states it: the boarder's Attack from Isolated
\* against a single defender leaves the target without crew and the Turn in
\* the state BoarderVictory.
C10_IsolatedAttackWins ==
    [][(IsolatedAttack /\ Defenders(World, "target") = 1) =>
          crew'["target"] = 0 /\ Added.state = "BoarderVictory"]_vars

\* C10: the boarder's Attack from Isolated makes no casualty roll: its Effect
\* has no rolls and the state Poised, and both crews are as they were.
C10_IsolatedAttackPoises ==
    [][IsolatedAttack =>
          /\ BoarderAction(Added).effect.casualtyRolls = 0
          /\ BoarderAction(Added).effect.state = "Poised"
          /\ crew' = crew
          /\ \A side \in Sides : ReportedCasualties(Added, side) = 0]_vars

\* The first Turn of a combat, in which the boarder attacked a single defender.
C10_Witness ==
    /\ Len(history) = 2
    /\ BoarderAction(history[2]).actual.objective = "Attack"
    /\ TargetAction(history[2]).actual.objective = "Defend"
    /\ Defenders(World, "target") = 1

\* A Turn was constructed from the latest Turn with these two objectives as intents.
Submitted(boarderObjective, targetObjective) ==
    /\ call.op = "Turn"
    /\ call.error = "none"
    /\ call.turn.boarderIntent.objective = boarderObjective
    /\ call.turn.targetIntent.objective = targetObjective

\* C11: a Turn in which both sides submit Attack from Poised records the state
\* Poised, and when its actions have casualty rolls the casualties the Turn
\* reports for the two sides total more than zero.
C11_MutualAttackPoised ==
    (Submitted("Attack", "Attack") /\ Latest.state = "Poised") =>
        /\ call.turn.state = "Poised"
        /\ (\E i \in 1 .. 2 : call.turn.actions[i].effect.casualtyRolls > 0) =>
              ReportedCasualties(call.turn, "boarder")
                  + ReportedCasualties(call.turn, "target") > 0

SelfDestructs == Activity("SelfDestruct", NoDetails)

\* What AttemptAction makes of a SelfDestruct intent of `side` in the latest
\* state and negotiation, for the two draws of Random::Real().
AttemptedSelfDestruct(side, enemyIntent, wonPowerRoll, selfDestructRoll) ==
    AttemptAction(World, side, Latest.state, Latest.negotiation, SelfDestructs,
        enemyIntent, wonPowerRoll, selfDestructRoll).action

\* The side's actual objective in the Turn.
Performed(turn, side) ==
    (IF side = "boarder" THEN BoarderAction(turn) ELSE TargetAction(turn)).actual.objective

\* C12: a SelfDestruct intent that is offered is carried out exactly when the
\* power roll is won and the second roll is below the ship's "self destruct"
\* attribute; a failed one gives the actual objective Null and no casualty
\* rolls; the ship of a side that carried it out in a Turn is destroyed and the
\* Turn records the state Ended.
C12_SelfDestructRolls ==
    /\ \A side \in Sides, enemyIntent \in Activities, won \in BOOLEAN, below \in BOOLEAN :
          (Latest.negotiation \in Negotiation /\ Offered("SelfDestruct", side, Latest)) =>
              LET action == AttemptedSelfDestruct(side, enemyIntent, won, below)
              IN  /\ action.actual.objective = "SelfDestruct"
                        <=> (won /\ below /\ cfg.selfDestruct[side])
                  /\ action.actual.objective # "SelfDestruct" =>
                        /\ action.actual.objective = "Null"
                        /\ action.effect.casualtyRolls = 0
    /\ \A side \in Sides :
          (call.op = "Turn" /\ call.error = "none"
                /\ Performed(call.turn, side) = "SelfDestruct") =>
              /\ destroyed[side]
              /\ call.turn.state = "Ended"

\* C13: from an Active negotiation, a Turn in which both sides Resolve with the
\* same Offer has the negotiation Successful and the state its Terms give:
\* BoarderVictory when the target surrenders, TargetVictory when the boarder
\* does, otherwise Ended.
C13_MutualResolve ==
    (/\ Submitted("Resolve", "Resolve")
     /\ Latest.negotiation = "Active"
     /\ call.turn.boarderIntent.details = call.turn.targetIntent.details) =>
        /\ call.turn.negotiation = "Successful"
        /\ call.turn.state \in {"BoarderVictory", "TargetVictory", "Ended"}
        /\ call.turn.boarderIntent.details.offer = "TargetSurrender" =>
              call.turn.state = "BoarderVictory"

----------------------------------------------------------------------------
(* CaptureOdds.cpp.  A double is an exact fraction [num, den] of naturals  *)
(* in lowest terms; den = 0 is NaN, the value of 0. / 0.                    *)

RECURSIVE GCD(_, _)
GCD(a, b) == IF b = 0 THEN a ELSE GCD(b, a % b)

NaN == [num |-> 0, den |-> 0]

IsNaN(x) == x = NaN

\* No value: the read faulted and the call did not return.
Fault == [num |-> 1, den |-> 0]

Real(n, d) ==
    IF d = 0 THEN NaN
    ELSE LET g == GCD(n, d) IN [num |-> n \div g, den |-> d \div g]

Zero == Real(0, 1)

One == Real(1, 1)

Plus(x, y) ==
    IF IsNaN(x) \/ IsNaN(y) THEN NaN
    ELSE Real(x.num * y.den + y.num * x.den, x.den * y.den)

Times(x, y) ==
    IF IsNaN(x) \/ IsNaN(y) THEN NaN ELSE Real(x.num * y.num, x.den * y.den)

\* 1. - x, for x in [0, 1].
Complement(x) == IF IsNaN(x) THEN NaN ELSE Real(x.den - x.num, x.den)

\* x <= y as the hardware compares: false when either is NaN.
LessOrEqual(x, y) == x.den # 0 /\ y.den # 0 /\ x.num * y.den <= y.num * x.den

\* static_cast<unsigned>(x) of an int, as far as it is compared with the size
\* of a vector: a negative x becomes a value of at least 2^31, above any size.
Unsigned(x) == IF x < 0 THEN 2147483647 ELSE x

\* sort(power.begin(), power.end(), greater<double>()), by insertion.
RECURSIVE SortDescending(_)
SortDescending(values) ==
    IF values = <<>> THEN <<>>
    ELSE LET rest == SortDescending(Tail(values))
             v == Head(values)
             n == Cardinality({i \in 1 .. Len(rest) : rest[i] >= v})
         IN  SubSeq(rest, 1, n) \o <<v>> \o SubSeq(rest, n + 1, Len(rest))

RECURSIVE PartialSums(_, _, _)
\* power[i] += power[i - 1] + crewPower, for the entries from i on.
PartialSums(power, crewPower, i) ==
    IF i > Len(power) THEN power
    ELSE PartialSums([power EXCEPT ![i] = @ + power[i - 1] + crewPower], crewPower, i + 1)

\* CaptureOdds::Power: weapons are the values of the ship's outfits with the
\* boarding attribute, in the order the outfit map yields them.
Power(effectiveCrewMembers, weapons, crewPower) ==
    IF effectiveCrewMembers = 0 THEN <<>>
    ELSE LET sorted == SortDescending(weapons)
             resized == [i \in 1 .. effectiveCrewMembers |->
                            IF i <= Len(sorted) THEN sorted[i] ELSE 0]
         IN  PartialSums([resized EXCEPT ![1] = @ + crewPower], crewPower, 2)

RECURSIVE CalculateFrom(_, _, _, _)
\* The two loops of CaptureOdds::Calculate from the push_back that fills
\* position k (from 0) of the three tables; `index` of the code is k - size.
CalculateFrom(tables, powerAttacker, powerDefender, k) ==
    LET size == Len(powerDefender)
        a == k \div size + 1
        defenderCrew == k % size
        index == k - size
        attackPower == powerAttacker[a]
        attackerActionChance ==
            Real(attackPower, attackPower + powerDefender[defenderCrew + 1])
        defenderActionChance == Complement(attackerActionChance)
        chance == tables.captureChance
        lostA == tables.casualtiesAttacker
        lostD == tables.casualtiesDefender
        next ==
            IF defenderCrew = 0
            THEN [captureChance |-> Append(chance,
                      Plus(attackerActionChance,
                           Times(defenderActionChance, chance[index + 1]))),
                  casualtiesAttacker |-> Append(lostA,
                      Times(defenderActionChance, Plus(lostA[index + 1], One))),
                  casualtiesDefender |-> Append(lostD,
                      Plus(attackerActionChance,
                           Times(defenderActionChance, lostD[index + 1])))]
            ELSE [captureChance |-> Append(chance,
                      Plus(Times(attackerActionChance, chance[k]),
                           Times(defenderActionChance, chance[index + 1]))),
                  casualtiesAttacker |-> Append(lostA,
                      Plus(Times(attackerActionChance, lostA[k]),
                           Times(defenderActionChance, Plus(lostA[index + 1], One)))),
                  casualtiesDefender |-> Append(lostD,
                      Plus(Times(attackerActionChance, Plus(lostD[k], One)),
                           Times(defenderActionChance, lostD[index + 1])))]
    IN  IF k >= Len(powerAttacker) * size THEN tables
        ELSE CalculateFrom(next, powerAttacker, powerDefender, k + 1)

\* CaptureOdds::Calculate: the three lookup tables.
Calculate(powerAttacker, powerDefender) ==
    IF powerDefender = <<>> \/ powerAttacker = <<>>
    THEN [captureChance |-> <<>>, casualtiesAttacker |-> <<>>, casualtiesDefender |-> <<>>]
    ELSE LET firstRow == [i \in 1 .. Len(powerDefender) |-> Zero]
         IN  CalculateFrom([captureChance |-> firstRow, casualtiesAttacker |-> firstRow,
                            casualtiesDefender |-> firstRow],
                 powerAttacker, powerDefender, Len(powerDefender))

\* CaptureOdds::Index.
Index(attackingCrew, defendingCrew) ==
    IF Unsigned(attackingCrew - 1) > Len(cfg.powerAttacker) THEN -1
    ELSE IF Unsigned(defendingCrew - 1) > Len(cfg.powerDefender) THEN -1
    ELSE (attackingCrew - 1) * Len(cfg.powerDefender) + (defendingCrew - 1)

\* What a read past the end of a vector can give: any double, or a fault.
PastTheEnd == {Zero, Real(1, 2), One, NaN, Fault}

\* table[index]: the values the read can give.
Read(table, index) == IF index < Len(table) THEN {table[index + 1]} ELSE PastTheEnd

OddsMutDefenseless(attackingCrew, defendingCrew) ==
    LET index == Index(attackingCrew, defendingCrew)
    IN  IF attackingCrew < 2 \/ index < 0 THEN {Zero}
        ELSE Read(cfg.captureChance, index)

\* CaptureOdds::Odds: the values the call can return.
Odds(attackingCrew, defendingCrew) ==
    IF defendingCrew = 0 THEN {One}
    ELSE LET index == Index(attackingCrew, defendingCrew)
         IN  IF attackingCrew < 2 \/ index < 0 THEN {Zero}
             ELSE Read(cfg.captureChance, index)

AttackerCasualties(attackingCrew, defendingCrew) ==
    LET index == Index(attackingCrew, defendingCrew)
    IN  IF attackingCrew < 2 \/ defendingCrew = 0 \/ index < 0 THEN {Zero}
        ELSE Read(cfg.casualtiesAttacker, index)

DefenderCasualties(attackingCrew, defendingCrew) ==
    LET index == Index(attackingCrew, defendingCrew)
    IN  IF attackingCrew < 2 \/ defendingCrew = 0 \/ index < 0 THEN {Zero}
        ELSE Read(cfg.casualtiesDefender, index)

\* The values of the boarding attribute of a ship's outfits, as the outfit map
\* yields them.
WeaponLists == {<<>>, <<1, 2>>}

\* CaptureOdds(attacker, defender): the boarder attacks, the target defends.
CaptureOdds(crews, crewPower, weapons) ==
    LET powerAttacker == Power(crews["boarder"], weapons["boarder"], crewPower["boarder"])
        powerDefender == Power(crews["target"], weapons["target"], crewPower["target"])
        tables == Calculate(powerAttacker, powerDefender)
    IN  [yours |-> "none", crewPower |-> crewPower, weapons |-> weapons,
         automatedDefenders |-> [side \in Sides |-> 0],
         automatedInvaders |-> [side \in Sides |-> 0],
         powerAttacker |-> powerAttacker, powerDefender |-> powerDefender,
         captureChance |-> tables.captureChance,
         casualtiesAttacker |-> tables.casualtiesAttacker,
         casualtiesDefender |-> tables.casualtiesDefender]

\* A query of the tables and the value it returned.
Asked(op, attackingCrew, defendingCrew, value) ==
    [op |-> op, error |-> "none", attackingCrew |-> attackingCrew,
     defendingCrew |-> defendingCrew, value |-> value]

\* The crew counts a query is made with.
CrewCounts == -1 .. MaxOddsCrew + 2

InitOdds ==
    /\ crew \in [Sides -> 0 .. MaxOddsCrew]
    /\ \E crewPower \in [Sides -> 0 .. MaxCrewPower], weapons \in [Sides -> WeaponLists] :
          cfg = CaptureOdds(crew, crewPower, weapons)
    /\ automated = [side \in Sides |-> [defenders |-> 0, invaders |-> 0]]
    /\ destroyed = [side \in Sides |-> FALSE]
    /\ remaining = [side \in Sides |-> <<>>]
    /\ taken = [side \in Sides |-> <<>>]
    /\ pending = FALSE
    /\ history = <<FirstTurn>>
    /\ call = Asked("none", 0, 0, Zero)

QueryOdds ==
    /\ \E attackingCrew \in CrewCounts, defendingCrew \in CrewCounts :
          \E value \in Odds(attackingCrew, defendingCrew) :
              call' = Asked("Odds", attackingCrew, defendingCrew, value)
    /\ UNCHANGED <<cfg, crew, automated, destroyed, remaining, taken, pending, history>>

QueryAttackerCasualties ==
    /\ \E attackingCrew \in CrewCounts, defendingCrew \in CrewCounts :
          \E value \in AttackerCasualties(attackingCrew, defendingCrew) :
              call' = Asked("AttackerCasualties", attackingCrew, defendingCrew, value)
    /\ UNCHANGED <<cfg, crew, automated, destroyed, remaining, taken, pending, history>>

QueryDefenderCasualties ==
    /\ \E attackingCrew \in CrewCounts, defendingCrew \in CrewCounts :
          \E value \in DefenderCasualties(attackingCrew, defendingCrew) :
              call' = Asked("DefenderCasualties", attackingCrew, defendingCrew, value)
    /\ UNCHANGED <<cfg, crew, automated, destroyed, remaining, taken, pending, history>>

NextOdds == QueryOdds \/ QueryAttackerCasualties \/ QueryDefenderCasualties

SpecOdds == InitOdds /\ [][NextOdds]_vars

OutOfRange(attackingCrew, defendingCrew) ==
    /\ defendingCrew >= 1
    /\ attackingCrew > Len(cfg.powerAttacker) \/ defendingCrew > Len(cfg.powerDefender)

\* C15: Odds, AttackerCasualties and DefenderCasualties give 0 for every query
\* outside the precomputed range with a crewed defender, and a query that reads
\* a table reads, inside the table, the entry of its own pair of crew counts.
C15_OutOfRangeIsZero ==
    /\ (call.op # "none" /\ OutOfRange(call.attackingCrew, call.defendingCrew)) =>
          call.value = Zero
    /\ \A attackingCrew \in CrewCounts, defendingCrew \in CrewCounts :
          LET index == Index(attackingCrew, defendingCrew)
          IN  (attackingCrew >= 2 /\ defendingCrew # 0 /\ index >= 0) =>
                  /\ index < Len(cfg.captureChance)
                  /\ defendingCrew <= Len(cfg.powerDefender)

\* C16: for a defender crew of at least one, Odds does not decrease when the
\* attacker has one more crew member, over the whole precomputed range.
C16_OddsMonotone ==
    \A defendingCrew \in 1 .. Len(cfg.powerDefender),
       attackingCrew \in 1 .. Len(cfg.powerAttacker) - 1 :
        \A lower \in Odds(attackingCrew, defendingCrew),
           higher \in Odds(attackingCrew + 1, defendingCrew) :
            LessOrEqual(lower, higher)

\* ---------------------------------------------------------------------------
\* BoardingProbability: the total power tables and the cells built from them.
\* Powers are counted in thousandths, so that the 0.001 of TotalPower is 1.
\* ---------------------------------------------------------------------------

Thousandths(x) == x * 1000

\* What a read past the end of a vector<double> can return.
PastTheEndPower == {0, Thousandths(1)}

\* The "base capture attack" and "base capture defense" attributes of a ship.
CaptureAttributes ==
    {[attack |-> 0, defense |-> 0], [attack |-> 0, defense |-> Thousandths(1)]}

\* BoardingProbability::EffectiveCrewPower(ship, isDefensive), from the ship's
\* effective crew, its government's crew power and its outfits' boarding power.
EffectiveCrewPower(effectiveCrewMembers, baseCrewPower, outfits) ==
    IF effectiveCrewMembers = 0 THEN <<>>
    ELSE LET usable == SelectSeq(outfits, LAMBDA outfitPower : outfitPower > 0)
             power == SortDescending([i \in 1 .. Len(usable) |-> usable[i] + baseCrewPower])
         IN  [i \in 1 .. effectiveCrewMembers |->
                 IF i <= Len(power) THEN power[i] ELSE baseCrewPower]

\* The loop of TotalPower from the C++ index i on.
RECURSIVE TotalPowerFrom(_, _, _, _)
TotalPowerFrom(result, effectiveCrewPower, minimum, i) ==
    IF i >= Len(effectiveCrewPower) THEN result
    ELSE TotalPowerFrom(
             Append(result, Max(minimum, result[Len(result)] + effectiveCrewPower[i + 1])),
             effectiveCrewPower, minimum, i + 1)

\* BoardingProbability::TotalPower(ship, effectiveCrewPower, isAttacking): the
\* tables it can return.  effectiveCrewPower[1] is the second crew member, and
\* past the end of a vector of one.
TotalPower(attributes, effectiveCrewPower, isAttacking) ==
    LET effectiveCrewMembers == Len(effectiveCrewPower)
        minimum == IF isAttacking THEN 0 ELSE 1
        base == IF isAttacking THEN attributes.attack ELSE attributes.defense
        second == IF effectiveCrewMembers >= 2 THEN {effectiveCrewPower[2]}
                  ELSE PastTheEndPower
    IN  IF effectiveCrewMembers < 1 THEN {<<minimum>>}
        ELSE {TotalPowerFrom(<<minimum, Max(minimum, s + base)>>,
                             effectiveCrewPower, minimum, 2) : s \in second}

\* The constructor's isDefensiveAttack and isDefensiveDefend.
isDefensiveAttack == isObjectiveDefensive["Attack"]

isDefensiveDefend == isObjectiveDefensive["Defend"]

\* The tables of both ships, one choice of TotalPower for each.
TotalPowers(attributes, effectiveCrewPower, isAttacking) ==
    LET tables == [side \in Sides |->
                      TotalPower(attributes[side], effectiveCrewPower[side], isAttacking)]
    IN  {total \in [Sides -> UNION {tables[side] : side \in Sides}] :
            \A side \in Sides : total[side] \in tables[side]}

\* BoardingProbability(boarder, target): the objects the constructor can build.
BoardingProbability(crews, crewPower, weapons, attributes) ==
    LET invaderPower == [side \in Sides |->
            EffectiveCrewPower(crews[side], Thousandths(crewPower[side]),
                               [i \in DOMAIN weapons[side] |-> Thousandths(weapons[side][i])])]
        defenderPower == invaderPower
    IN  {[yours |-> "none", crewPower |-> crewPower, weapons |-> weapons,
          attributes |-> attributes,
          automatedDefenders |-> [side \in Sides |-> 0],
          automatedInvaders |-> [side \in Sides |-> 0],
          initialInvaders |-> crews, initialDefenders |-> crews,
          totalAttackPower |-> totalAttackPower,
          totalDefensePower |-> totalDefensePower] :
            totalAttackPower \in TotalPowers(attributes, invaderPower, isDefensiveAttack),
            totalDefensePower \in TotalPowers(attributes, defenderPower, isDefensiveDefend)}

\* A read of a power table at a crew count.
PowerAt(table, crewCount) ==
    IF crewCount + 1 \in DOMAIN table THEN {table[crewCount + 1]} ELSE PastTheEndPower

\* One side's Forces of BoardingProbability::GetReport().
Forces(side) ==
    {[invaders |-> Invaders(World, side), defenders |-> Defenders(World, side),
      attackPower |-> attackPower, defensePower |-> defensePower] :
        attackPower \in PowerAt(cfg.totalAttackPower[side], Invaders(World, side)),
        defensePower \in PowerAt(cfg.totalDefensePower[side], Defenders(World, side))}

\* BoardingProbability::ScenarioIndex(boarderCrew, targetCrew, targetAttacks).
ScenarioIndex(boarderCrew, targetCrew, targetAttacks) ==
    targetCrew + boarderCrew * (IF targetAttacks THEN cfg.initialInvaders["target"]
                                ELSE cfg.initialInvaders["boarder"])

\* The strategies the constructor prepares: <<boarderAttacks, targetAttacks>>.
Strategies == {<<TRUE, FALSE>>, <<FALSE, TRUE>>, <<TRUE, TRUE>>}

InitPower ==
    /\ crew \in [Sides -> 0 .. MaxOddsCrew]
    /\ \E crewPower \in [Sides -> 0 .. MaxCrewPower], weapons \in [Sides -> WeaponLists],
          attributes \in [Sides -> CaptureAttributes] :
          cfg \in BoardingProbability(crew, crewPower, weapons, attributes)
    /\ automated = [side \in Sides |-> [defenders |-> 0, invaders |-> 0]]
    /\ destroyed = [side \in Sides |-> FALSE]
    /\ remaining = [side \in Sides |-> <<>>]
    /\ taken = [side \in Sides |-> <<>>]
    /\ pending = FALSE
    /\ history = <<FirstTurn>>
    /\ call = [op |-> "none", error |-> "none"]

\* BoardingProbability::GetReport(), its Forces.
GetReport ==
    /\ \E boarderForces \in Forces("boarder"), targetForces \in Forces("target") :
          call' = [op |-> "GetReport", error |-> "none",
                   boarderForces |-> boarderForces, targetForces |-> targetForces]
    /\ UNCHANGED <<cfg, crew, automated, destroyed, remaining, taken, pending, history>>

\* BoardingProbability::PrepareStrategy(boarderAttacks, targetAttacks): one pass
\* of its loop over the crew counts, up to the action chances.
PrepareStrategy ==
    /\ \E strategy \in Strategies :
          LET boarderAttacks == strategy[1]
              targetAttacks == strategy[2]
              boarderPower == IF boarderAttacks THEN cfg.totalAttackPower["boarder"]
                              ELSE cfg.totalDefensePower["boarder"]
              targetPower == IF targetAttacks THEN cfg.totalAttackPower["target"]
                             ELSE cfg.totalDefensePower["target"]
              initialBoarderCrew == IF boarderAttacks THEN cfg.initialInvaders["boarder"]
                                    ELSE cfg.initialDefenders["boarder"]
              initialTargetCrew == IF targetAttacks THEN cfg.initialInvaders["target"]
                                   ELSE cfg.initialDefenders["target"]
          IN  \E boarderCrew \in 1 .. initialBoarderCrew, targetCrew \in 1 .. initialTargetCrew :
                  \E boarder \in PowerAt(boarderPower, boarderCrew),
                     target \in PowerAt(targetPower, targetCrew) :
                      call' = [op |-> "PrepareStrategy", error |-> "none",
                               boarderAttacks |-> boarderAttacks,
                               targetAttacks |-> targetAttacks,
                               boarderCrew |-> boarderCrew, targetCrew |-> targetCrew,
                               index |-> ScenarioIndex(boarderCrew, targetCrew, targetAttacks),
                               totalPower |-> boarder + target,
                               boarderActionChance |-> Real(boarder, boarder + target)]
    /\ UNCHANGED <<cfg, crew, automated, destroyed, remaining, taken, pending, history>>

NextPower == GetReport \/ PrepareStrategy

SpecPower == InitPower /\ [][NextPower]_vars

\* C17: every entry of the defense tables is at least the positive floor and every
\* entry of the attack tables at least zero, and no total power of a cell of
\* PrepareStrategy or of a report's Forces is zero.
C17_PowerFloors ==
    /\ \A side \in Sides :
          /\ \A i \in DOMAIN cfg.totalDefensePower[side] : cfg.totalDefensePower[side][i] >= 1
          /\ \A i \in DOMAIN cfg.totalAttackPower[side] : cfg.totalAttackPower[side][i] >= 0
    /\ call.op = "PrepareStrategy" => call.totalPower # 0
    /\ call.op = "GetReport" =>
          /\ call.boarderForces.attackPower + call.targetForces.defensePower # 0
          /\ call.targetForces.attackPower + call.boarderForces.defensePower # 0

\* C18: whether details fit an Activity is fixed by its objective alone: a tuple
\* fits only Plunder, an Offer only Negotiate and Resolve, a bool only when it is
\* false and the objective is none of the three; an Activity whose details do not
\* fit is valid for neither side in the latest state and negotiation, and a Turn
\* built from one ends with an exception.
C18_DetailsByObjective ==
    /\ \A objective \in Objective, details \in Details :
          IsValidDetails(objective, details) <=>
              CASE objective = "Plunder" -> details.kind = "tuple"
                [] objective \in {"Negotiate", "Resolve"} -> details.kind = "offer"
                [] OTHER -> details.kind = "bool" /\ ~details.value
    /\ \A activity \in Activities, isBoarder \in BOOLEAN, shouldThrow \in BOOLEAN :
          ~IsValidDetails(activity.objective, activity.details) =>
              IsValidActivity(activity,
                  ValidObjectives(Latest.state, Latest.negotiation, isBoarder),
                  shouldThrow) # "ok"
    /\ (call.op = "Turn" /\ ~call.detailsOk) => call.error \in Exceptions

\* A Turn whose objectives were both offered is refused for its details.
C18_Witness ==
    /\ call.op = "Turn" /\ call.offered /\ ~call.detailsOk
    /\ call.error = "invalid_argument"

\* The intent a side handed to a Turn.
IntentOf(turn, side) == IF side = "boarder" THEN turn.boarderIntent ELSE turn.targetIntent

\* Whether `action` is what `side` can get from AttemptAction in the given state
\* and negotiation, as far as the ships' crews do not enter.
AttemptedFrom(action, turn, side, state, negotiation) ==
    \E r \in BOOLEAN \X BOOLEAN :
        LET attempt == AttemptAction(World, side, state, negotiation, IntentOf(turn, side),
                           IntentOf(turn, Enemy(side)), r[1], r[2])
        IN  /\ attempt.error = "none"
            /\ attempt.action.intent = action.intent
            /\ attempt.action.actual = action.actual
            /\ attempt.action.effect.state = action.effect.state
            /\ attempt.action.effect.negotiation = action.effect.negotiation
            /\ attempt.action.effect.casualtyObjective = action.effect.casualtyObjective

\* C19: a Turn attempts the target's action first, and the boarder's first when it
\* starts in TargetInvading: the first action is attempted in the state and the
\* negotiation the Turn starts in, the other side's follows from what the first
\* left, and the order stays as the state at the start fixed it.
C19_ActionOrder ==
    (call.op = "Turn" /\ call.error = "none") =>
        LET first == IF Latest.state = "TargetInvading" THEN "boarder" ELSE "target"
        IN  /\ call.turn.boarderActionIndex = (IF first = "boarder" THEN 0 ELSE 1)
            /\ AttemptedFrom(call.turn.actions[1], call.turn, first,
                   Latest.state, Latest.negotiation)
            /\ AttemptedFrom(call.turn.actions[2], call.turn, Enemy(first),
                   call.turn.actions[1].effect.state,
                   call.turn.actions[1].effect.negotiation)

\* A Turn that starts in TargetInvading, whose first action, the boarder's,
\* leaves TargetInvading, and whose two sides intend different things.
C19_Witness ==
    /\ call.op = "Turn" /\ call.error = "none"
    /\ Latest.state = "TargetInvading"
    /\ call.turn.boarderActionIndex = 0
    /\ call.turn.actions[1].effect.state # "TargetInvading"
    /\ call.turn.actions[1].intent = call.turn.boarderIntent
    /\ call.turn.boarderIntent.objective # call.turn.targetIntent.objective

\* C20: when the intent of the side that acts second is no longer offered in the
\* state and negotiation the first action's effect holds, its actual objective is
\* Null, its effect has no casualty rolls and the state and negotiation of the
\* first action's effect, and its casualty objective is the objective it intended.
C20_SecondActorRevalidated ==
    (call.op = "Turn" /\ call.error = "none") =>
        LET first == call.turn.actions[1]
            second == call.turn.actions[2]
            side == IF call.turn.boarderActionIndex = 0 THEN "target" ELSE "boarder"
        IN  ~Offered(second.intent.objective, side, first.effect) =>
                /\ second.intent = IntentOf(call.turn, side)
                /\ second.actual.objective = "Null"
                /\ second.effect.casualtyRolls = 0
                /\ second.effect.state = first.effect.state
                /\ second.effect.negotiation = first.effect.negotiation
                /\ second.effect.casualtyObjective = second.intent.objective

\* From BoarderInvading the target destroys its ship first, and the boarder's
\* Attack, offered when the Turn began, is no longer offered once it has Ended.
C20_Witness ==
    /\ call.op = "Turn" /\ call.error = "none"
    /\ Latest.state = "BoarderInvading" /\ Latest.negotiation = "NotAttempted"
    /\ call.turn.boarderActionIndex = 1
    /\ call.turn.actions[1].actual.objective = "SelfDestruct"
    /\ call.turn.actions[1].effect.state = "Ended"
    /\ call.turn.actions[2].intent.objective = "Attack"
    /\ Offered("Attack", "boarder", Latest)
    /\ ~Offered("Attack", "boarder", call.turn.actions[1].effect)
    /\ call.turn.actions[2].actual.objective = "Null"
    /\ call.turn.actions[2].effect.casualtyObjective = "Attack"

\* A side's Action of a Turn.
ActionOf(turn, side) == IF side = "boarder" THEN BoarderAction(turn) ELSE TargetAction(turn)

\* The state in which a Turn that follows `previous` attempted a side's action:
\* the state of `previous` for actions[0], the effect of actions[0] for actions[1].
StateBefore(previous, turn, side) ==
    IF ActionIndex(previous.state, side = "boarder") = 0 THEN previous.state
    ELSE turn.actions[1].effect.state

\* C21: the Effect of a performed Attack has the state Poised when the boarder
\* attacked from Isolated, and when it was attempted in Poised or Withdrawing the
\* state BoarderInvading for the boarder and TargetInvading for the target, or
\* Poised when the enemy performs Attack in the same Turn; MaybeChangeState gives
\* these states for every enemy intent.
C21_AttackEscalates ==
    LET AttackState(side, state, enemyAttacks) ==
            IF state = "Isolated" THEN "Poised"
            ELSE IF enemyAttacks THEN "Poised"
            ELSE IF side = "boarder" THEN "BoarderInvading" ELSE "TargetInvading"
    IN  /\ \A side \in Sides, state \in {"Isolated", "Poised", "Withdrawing"},
              enemyIntent \in Activities :
              (state = "Isolated" => side = "boarder") =>
                  MaybeChangeState(side, state, Activity("Attack", NoDetails), enemyIntent)
                      = AttackState(side, state, enemyIntent.objective = "Attack")
        /\ (call.op = "Turn" /\ call.error = "none") =>
              \A side \in Sides :
                  LET state == StateBefore(Latest, call.turn, side)
                  IN  (/\ Performed(call.turn, side) = "Attack"
                       /\ state \in {"Isolated", "Poised", "Withdrawing"}
                       /\ state = "Isolated" => side = "boarder") =>
                          ActionOf(call.turn, side).effect.state
                              = AttackState(side, state,
                                    Performed(call.turn, Enemy(side)) = "Attack")

\* From Poised the target's Attack, against a boarder that does not attack, has
\* the effect TargetInvading.
C21_Witness ==
    /\ call.op = "Turn" /\ call.error = "none"
    /\ Latest.state = "Poised"
    /\ Performed(call.turn, "target") = "Attack"
    /\ Performed(call.turn, "boarder") = "Defend"
    /\ TargetAction(call.turn).effect.state = "TargetInvading"

\* C22: a performed Attack that was attempted while the enemy was invading
\* (TargetInvading for the boarder, BoarderInvading for the target) has an Effect
\* with that same state, whatever the enemy intends.
C22_InvadedAttackKeepsState ==
    (call.op = "Turn" /\ call.error = "none") =>
        \A side \in Sides :
            LET state == StateBefore(Latest, call.turn, side)
            IN  (/\ Performed(call.turn, side) = "Attack"
                 /\ state = (IF side = "boarder" THEN "TargetInvading" ELSE "BoarderInvading")) =>
                    ActionOf(call.turn, side).effect.state = state

\* C23: a Turn in which both sides submit Defend records Withdrawing when it
\* starts in Poised, Isolated when it starts in Withdrawing and Poised when it
\* starts in BoarderInvading or TargetInvading.
C23_MutualDefendDeescalates ==
    Submitted("Defend", "Defend") =>
        /\ Latest.state = "Poised" => call.turn.state = "Withdrawing"
        /\ Latest.state = "Withdrawing" => call.turn.state = "Isolated"
        /\ Latest.state \in {"BoarderInvading", "TargetInvading"} => call.turn.state = "Poised"

\* ---------------------------------------------------------------------------
\* A negotiation: Turns constructed one after the other and pushed onto the
\* history as Step does, from intents of the negotiation.
\* ---------------------------------------------------------------------------

\* What a combatant can intend about a negotiation.
Talks ==
    {Activity("Negotiate", [kind |-> "offer", offer |-> "TargetSurrender"]),
     Activity("Reject", NoDetails)}

InitTalks ==
    /\ cfg \in TurnConfigs
    /\ crew = [side \in Sides |-> MaxCrew]
    /\ automated = [side \in Sides |-> [defenders |-> 0, invaders |-> 0]]
    /\ destroyed = [side \in Sides |-> FALSE]
    /\ remaining = [side \in Sides |-> <<>>]
    /\ taken = [side \in Sides |-> <<>>]
    /\ pending = FALSE
    /\ history = <<FirstTurn>>
    /\ call = Returned("none", "none", TRUE, TRUE, FirstTurn)

\* history->push_back(make_shared<Turn>(*this, boarderIntent, targetIntent)).
PushTurn ==
    /\ Len(history) <= MaxTalks
    /\ \E boarderIntent \in Talks, targetIntent \in Talks :
          \E outcome \in TurnOutcomes(World, history, boarderIntent, targetIntent) :
              /\ Ships(outcome)
              /\ PushBack(outcome)
              /\ call' = Returned("Turn", outcome.error, TRUE, TRUE, outcome.turn)
    /\ UNCHANGED cfg

SpecTalks == InitTalks /\ [][PushTurn]_vars

\* The Turns of the history in which a side performed Reject.
Rejections(side) == {i \in 2 .. Len(history) : Performed(history[i], side) = "Reject"}

\* C24: the Turn in which a side performed Reject records BoarderRejected or
\* TargetRejected by that side, and each later Turn up to the next in which a
\* Negotiate is performed offers Negotiate to no side but the one that rejected.
C24_RejectedSideMayReopen ==
    \A side \in Sides : \A i \in Rejections(side) :
        /\ history[i].negotiation =
              (IF side = "boarder" THEN "BoarderRejected" ELSE "TargetRejected")
        /\ \A j \in i .. Len(history) :
              (\A k \in i + 1 .. j, s \in Sides : Performed(history[k], s) # "Negotiate") =>
                  ~Offered("Negotiate", Enemy(side), history[j])

\* C25: once each side has performed Reject in some Turn of the combat, the
\* negotiation is Failed and Negotiate is offered to neither side.
C25_BothRejectedFails ==
    (Rejections("boarder") # {} /\ Rejections("target") # {}) =>
        /\ Latest.negotiation = "Failed"
        /\ \A side \in Sides : ~Offered("Negotiate", side, Latest)

\* C26: in a combat whose combatants share no language no Turn has a performed
\* Negotiate: an intended Negotiate has the actual objective Null, and no Turn
\* records the negotiation Active.
C26_NoLanguageNoNegotiation ==
    ~cfg.languageShared =>
        \A i \in 2 .. Len(history) :
            /\ \A side \in Sides :
                  /\ Performed(history[i], side) # "Negotiate"
                  /\ IntentOf(history[i], side).objective = "Negotiate" =>
                        Performed(history[i], side) = "Null"
            /\ history[i].negotiation # "Active"

\* C27: in a Turn that starts with the negotiation Active and in which one side
\* intends Reject and the other Resolve, the Resolve has the actual objective
\* Null, whichever side acts first, and the Turn records BoarderRejected when
\* the boarder rejected and TargetRejected when the target did.
C27_RejectBeatsResolve ==
    \A side \in Sides :
        (/\ call.op = "Turn" /\ call.error = "none"
         /\ Latest.negotiation = "Active"
         /\ IntentOf(call.turn, side).objective = "Reject"
         /\ IntentOf(call.turn, Enemy(side)).objective = "Resolve") =>
            /\ Performed(call.turn, Enemy(side)) = "Null"
            /\ call.turn.negotiation =
                  (IF side = "boarder" THEN "BoarderRejected" ELSE "TargetRejected")

\* C28: a side that intends Defend performs Defend exactly in the Turns in which
\* the enemy's actual objective is Attack; in every other Turn its actual
\* objective is Null and its Effect has no casualty rolls.
C28_DefendNeedsAttack ==
    (call.op = "Turn" /\ call.error = "none") =>
        \A side \in Sides :
            IntentOf(call.turn, side).objective = "Defend" =>
                /\ Performed(call.turn, side) = "Defend"
                      <=> Performed(call.turn, Enemy(side)) = "Attack"
                /\ Performed(call.turn, side) # "Defend" =>
                      /\ Performed(call.turn, side) = "Null"
                      /\ ActionOf(call.turn, side).effect.casualtyRolls = 0

\* From Poised both sides intend Defend, and neither Defend is performed.
C28_Witness ==
    /\ call.op = "Turn" /\ call.error = "none"
    /\ Latest.state = "Poised"
    /\ call.turn.targetIntent.objective = "Defend"
    /\ call.turn.boarderIntent.objective = "Defend"
    /\ Performed(call.turn, "boarder") = "Null"
    /\ Performed(call.turn, "target") = "Null"

\* ---------------------------------------------------------------------------
\* Casualties: ApplyCasualty and RollForCasualties, called on their own for
\* ships with automated invaders and defenders.
\* ---------------------------------------------------------------------------

CasualtyConfigs ==
    [yours : {"none"},
     languageShared : {TRUE},
     selfDestruct : [Sides -> {FALSE}],
     automatedDefenders : {[side \in Sides |-> IF side = "target" THEN n ELSE 0] :
                              n \in 0 .. MaxAutomated},
     automatedInvaders : {[side \in Sides |-> IF side = "target" THEN n ELSE 0] :
                              n \in 0 .. MaxAutomated},
     goal : [Sides -> {"OTHER"}]]

InitCasualty ==
    /\ cfg \in CasualtyConfigs
    /\ crew \in [Sides -> 1 .. MaxCrew]
    /\ automated = [side \in Sides |->
           [defenders |-> cfg.automatedDefenders[side],
            invaders |-> cfg.automatedInvaders[side]]]
    /\ destroyed = [side \in Sides |-> FALSE]
    /\ remaining = [side \in Sides |-> <<>>]
    /\ taken = [side \in Sides |-> <<>>]
    /\ pending = FALSE
    /\ history = <<FirstTurn>>
    /\ call = [op |-> "none", error |-> "none"]

\* combatant->ApplyCasualty(isInvading), for a ship with a crew.
CallApplyCasualty ==
    /\ \E side \in Sides, isInvading \in BOOLEAN :
          LET w == ApplyCasualty(World, side, isInvading)
          IN  /\ crew[side] > 0
              /\ crew' = w.crew
              /\ automated' = w.automated
              /\ call' = [op |-> "ApplyCasualty", error |-> "none", side |-> side,
                          isInvading |-> isInvading, value |-> Defenders(w, side)]
    /\ UNCHANGED <<cfg, destroyed, remaining, taken, pending, history>>

\* RollForCasualties(state, isBoarder, boarderAction, targetAction), for ships
\* with defenders.
CallRollForCasualties ==
    /\ \A side \in Sides : Defenders(World, side) > 0
    /\ \E state \in {"Poised", "BoarderInvading", "TargetInvading"}, isBoarder \in BOOLEAN,
          casualtyRolls \in 0 .. MaxRolls, objective \in {"Attack", "Null"} :
          \E draws \in [1 .. casualtyRolls -> BOOLEAN] :
              LET RolledAction(o, n) ==
                      NewAction(Activity(o, NoDetails), Activity(o, NoDetails),
                          [state |-> "Poised", negotiation |-> "NotAttempted",
                           casualtyObjective |-> o, casualtyRolls |-> n])
                  boarderAction == RolledAction(IF isBoarder THEN objective ELSE "Attack",
                                       IF isBoarder THEN casualtyRolls ELSE MaxRolls)
                  targetAction == RolledAction(IF isBoarder THEN "Defend" ELSE objective,
                                      IF isBoarder THEN MaxRolls ELSE casualtyRolls)
                  rolled == RollForCasualties(World, state, isBoarder,
                                boarderAction, targetAction, draws)
              IN  /\ crew' = rolled.w.crew
                  /\ automated' = rolled.w.automated
                  /\ pending' = rolled.w.pending
                  /\ call' = [op |-> "RollForCasualties", error |-> rolled.error,
                              state |-> state, isBoarder |-> isBoarder,
                              casualtyRolls |-> casualtyRolls, report |-> rolled.report]
    /\ UNCHANGED <<cfg, destroyed, remaining, taken, history>>

NextCasualty == CallApplyCasualty \/ CallRollForCasualties

SpecCasualty == InitCasualty /\ [][NextCasualty]_vars

C31_ConsequencesApplied ==
    (/\ Latest.state = "Ended"
     /\ \E i \in 2 .. Len(history) :
           \E side \in Sides : ReportedCasualties(history[i], side) > 0) =>
        pending = FALSE


\* C32: for each strategy ScenarioIndex gives every pair of a boarder crew count
\* from 0 to the boarder's initial crew and a target crew count from 0 to the
\* target's initial crew an index of its own, below the length of the
\* strategy's Scenarios vector, and the cell a pass of PrepareStrategy's loop
\* writes is the cell of no other pair.
C32_ScenarioCells ==
    \A strategy \in Strategies :
        LET targetAttacks == strategy[2]
            initialBoarderCrew == IF strategy[1] THEN cfg.initialInvaders["boarder"]
                                  ELSE cfg.initialDefenders["boarder"]
            initialTargetCrew == IF targetAttacks THEN cfg.initialInvaders["target"]
                                 ELSE cfg.initialDefenders["target"]
            size == 1 + ScenarioIndex(initialBoarderCrew, initialTargetCrew, targetAttacks)
        IN  \A boarderCrew \in 0 .. initialBoarderCrew, targetCrew \in 0 .. initialTargetCrew :
                /\ ScenarioIndex(boarderCrew, targetCrew, targetAttacks) < size
                /\ \A b \in 0 .. initialBoarderCrew, t \in 0 .. initialTargetCrew :
                      <<b, t>> # <<boarderCrew, targetCrew>> =>
                          ScenarioIndex(b, t, targetAttacks)
                              # ScenarioIndex(boarderCrew, targetCrew, targetAttacks)


\* C33: each total-power table has an entry for every remaining crew count from
\* 0 to the ship's initial effective crew, the entry for k crew members being
\* the power of the k strongest effective crew members added up (with the
\* ship's base capture power, and no less than the table's floor), so that the
\* reads of PrepareStrategy and GetReport are inside the table.
C33_PowerTables ==
    \A side \in Sides :
        LET power == EffectiveCrewPower(cfg.initialInvaders[side],
                         Thousandths(cfg.crewPower[side]),
                         [i \in DOMAIN cfg.weapons[side] |->
                             Thousandths(cfg.weapons[side][i])])
            Cumulative(table, base) ==
                /\ Len(table) = Len(power) + 1
                /\ \A k \in 1 .. Len(power) :
                      k + 1 \in DOMAIN table =>
                          table[k + 1] = Max(table[1],
                              (IF k = 1 THEN base ELSE table[k]) + power[k])
        IN  /\ Cumulative(cfg.totalAttackPower[side], cfg.attributes[side].attack)
            /\ Cumulative(cfg.totalDefensePower[side], cfg.attributes[side].defense)
            /\ Invaders(World, side) + 1 \in DOMAIN cfg.totalAttackPower[side]
            /\ Defenders(World, side) + 1 \in DOMAIN cfg.totalDefensePower[side]


\* C34: a Plunder of one item that a Turn carried out lowers the item's entry in
\* the plunderer's remaining list by the number of units its taken list gained,
\* to no less than zero, when the entry stays in the list; an entry that left
\* the list had all its units taken.
C34_TakeCounts ==
    [][\A side \in Sides :
          (/\ call'.op \in {"Step", "StepPlayer"} /\ call'.error = "none"
           /\ Performed(call'.turn, side) = "Plunder"
           /\ ActionOf(call'.turn, side).actual.details.kind = "tuple"
           /\ ActionOf(call'.turn, side).actual.details.index + 1 \in DOMAIN remaining[side]) =>
              LET i == ActionOf(call'.turn, side).actual.details.index + 1
                  item == remaining[side][i]
                  before == IF item.name \in DOMAIN taken[side]
                            THEN taken[side][item.name] ELSE 0
                  after == IF item.name \in DOMAIN taken'[side]
                           THEN taken'[side][item.name] ELSE 0
              IN  /\ after >= before
                  /\ IF Len(remaining'[side]) = Len(remaining[side])
                     THEN /\ remaining'[side][i].count = item.count - (after - before)
                          /\ remaining'[side][i].count >= 0
                     ELSE after - before = item.count]_vars


\* C35: in every state and negotiation a combat reaches, each Activity that
\* DetermineIntent can return for a side passes the validation a Turn starts
\* with, for that side's valid objectives in that state and negotiation.
C35_AutomaticIntentValid ==
    (Latest.state \in State /\ Latest.negotiation \in Negotiation) =>
        \A side \in Sides :
            \A intent \in DetermineIntent(side) :
                IsValidActivity(intent,
                    ValidObjectives(Latest.state, Latest.negotiation, side = "boarder"),
                    TRUE) = "ok"


\* C36: a Turn whose two intents were both offered, with details that fit them,
\* is constructed without an exception: no table lookup and no access to a
\* plunder list made while it is resolved fails.
C36_ValidatedTurnCompletes ==
    (call.op = "Turn" /\ call.offered /\ call.detailsOk) => call.error = "none"


\* C37: in a constructed Turn the second action is resolved from the state and
\* the negotiation the first action's Result holds: its Result has the first
\* Result's negotiation, and the first Result's state as well when its
\* resolution changes nothing; the Turn records the state and the negotiation
\* of the second Result, which are values of their enums.
C37_ResultsThreaded ==
    (call.op = "Turn" /\ call.error = "none") =>
        LET first == call.turn.actions[1]
            second == call.turn.actions[2]
        IN  /\ second.result.negotiation = first.result.negotiation
            /\ second.actual.objective \in {"Null", "Negotiate", "Reject", "Resolve"} =>
                  second.result.state = first.result.state
            /\ call.turn.state = second.result.state
            /\ call.turn.negotiation = second.result.negotiation
            /\ call.turn.state \in State
            /\ call.turn.negotiation \in Negotiation


\* C38: the casualties two actions of one Turn inflict never take a ship's crew
\* below zero: after a side's defenders have reached zero the other action's
\* casualty pass inflicts nothing.
C38_NoCasualtyAfterZero ==
    [][(call'.op = "Turn" /\ call'.error = "none") =>
          \A side \in Sides : crew'[side] >= 0]_vars


\* C39: a Turn that records BoarderVictory, TargetVictory or Ended does not
\* record the negotiation Active.
C39_NoTalksAfterTheEnd ==
    (/\ call.op = "Turn" /\ call.error = "none"
     /\ call.turn.state \in {"BoarderVictory", "TargetVictory", "Ended"}) =>
        call.turn.negotiation # "Active"


\* C40: at most one combatant is player-controlled, and only the combatant
\* whose own ship is the player's; when the target's ship is the player's,
\* GetPlayerCombatant is the target and Step(playerIntent) finds its combatant.
C40_PlayerCombatant ==
    /\ Cardinality({side \in Sides : IsPlayerControlled(side)}) <= 1
    /\ \A side \in Sides : IsPlayerControlled(side) => cfg.yours = side
    /\ cfg.yours = "target" =>
          /\ GetPlayerCombatant = "target"
          /\ call.op = "StepPlayer" => call.error # "crash"

=============================================================================
